---- MODULE Spec2Model ----
(***************************************************************************)
(* Model of the chunked download pipeline of src/http/chunked_download.py: *)
(* main -> determine_output_file_path -> save_to_file / display_directly / *)
(* get_content -> get_checksums_mapping, get_http_response,                *)
(* download_chunks -> display_progress.                                    *)
(*                                                                         *)
(* Strings that the code parses, splits or joins (URLs, file system paths, *)
(* the Content-Length header) are sequences of one-character strings.      *)
(* Checksum names are strings, with the case conversions tabulated.        *)
(* A chunk is a sequence of bytes.                                         *)
(***************************************************************************)
EXTENDS Integers, Sequences, FiniteSets, TLC

(***************************************************************************)
(* Bounds of the model                                                     *)
(***************************************************************************)
\* longest response body served, in bytes
MaxBody == 3
\* longest output_path given to determine_output_file_path, in characters
MaxPath == 3
\* longest part of a URL after "http://h", in characters
MaxTail == 3
\* longest list of checksum names asked for
MaxNames == 2
\* how far the body sizes counted in chunks lie around the multiples of
\* MAXIMUM_CHUNKS_NUMBER * MINIMUM_CHUNK_SIZE, in bytes
MaxDelta == 60
\* most bytes received, and largest declared size either side of zero, of
\* the progress displays taken on their own
MaxReceived == 12
MaxTotal == 8

(***************************************************************************)
(* Module constants of chunked_download.py                                 *)
(***************************************************************************)
\* None, among strings (sequences of characters)
None == <<"None">>
\* an optional integer is <<>> (None) or <<n>>
NoInt == <<>>

SLASH == "/"
DASH == <<"-">>
DIRECTORY_INDEX == <<"i", "n", "d", "e", "x", ".", "h", "t", "m", "l">>
MAXIMUM_CHUNKS_NUMBER == 10000
MINIMUM_CHUNK_SIZE == 65536
BAR_WIDTH == 20
ITEM_COMPLETE == "#"
ITEM_REMAINING == "-"
RC_OK == 0

(***************************************************************************)
(* Generic helpers on sequences                                            *)
(***************************************************************************)
RECURSIVE SeqsUpTo(_, _)
\* all sequences over S of length at most n
SeqsUpTo(S, n) ==
    IF n = 0 THEN {<<>>}
    ELSE LET shorter == SeqsUpTo(S, n - 1)
         IN  shorter \cup {Append(s, x) : s \in shorter, x \in S}

\* s[from..] (1-based, empty when from is past the end)
Drop(s, from) == SubSeq(s, from, Len(s))
\* s[..to]
Take(s, to) == SubSeq(s, 1, to)

\* str.find(c, start): the first index >= from holding c, 0 when there is none
Find(s, c, from) ==
    LET hits == {i \in from..Len(s) : s[i] = c}
    IN  IF hits = {} THEN 0 ELSE CHOOSE i \in hits : \A j \in hits : i <= j

\* str.rfind(c): the last index holding c, 0 when there is none
RFind(s, c) ==
    LET hits == {i \in 1..Len(s) : s[i] = c}
    IN  IF hits = {} THEN 0 ELSE CHOOSE i \in hits : \A j \in hits : j <= i

\* str.endswith(c) for a single character
EndsWith(s, c) == Len(s) > 0 /\ s[Len(s)] = c
\* str.startswith(c) for a single character
StartsWith(s, c) == Len(s) > 0 /\ s[1] = c

RECURSIVE RStrip(_, _)
\* str.rstrip(c)
RStrip(s, c) == IF EndsWith(s, c) THEN RStrip(Take(s, Len(s) - 1), c) ELSE s

RECURSIVE LStrip(_, _)
\* str.lstrip over a set of characters
LStrip(s, cs) == IF Len(s) > 0 /\ s[1] \in cs THEN LStrip(Drop(s, 2), cs) ELSE s

RECURSIVE RStripSet(_, _)
\* str.rstrip over a set of characters
RStripSet(s, cs) ==
    IF Len(s) > 0 /\ s[Len(s)] \in cs THEN RStripSet(Take(s, Len(s) - 1), cs) ELSE s

RECURSIVE Join(_)
\* EMPTY.join(chunks): the concatenation of a sequence of sequences
Join(chunks) ==
    IF chunks = <<>> THEN <<>> ELSE Head(chunks) \o Join(Tail(chunks))

\* all but the last element
Front(s) == Take(s, Len(s) - 1)

(***************************************************************************)
(* os.path and urlparse, as determine_output_file_path uses them (POSIX)   *)
(***************************************************************************)
\* os.getcwd()
Cwd == <<"/", "w">>

\* the directories that exist in the file system, each as the names on the
\* way from the root: /, /d, /w, /w/d and /w/d/d
ExistingDirs ==
    { <<>>, <<<<"d">>>>, <<<<"w">>>>, <<<<"w">>, <<"d">>>>,
      <<<<"w">>, <<"d">>, <<"d">>>> }

\* what Components gives for a path that leads through something that is
\* not a directory
NoSuchPath == << <<>> >>

RECURSIVE Components(_, _)
\* the names on the way from the root to where a path leads, starting from
\* the names in seen: repeated and trailing slashes and "." name nothing,
\* ".." leaves a directory for the one above it
Components(path, seen) ==
    IF path = <<>> \/ seen = NoSuchPath THEN seen
    ELSE LET i == Find(path, SLASH, 1)
             name == IF i = 0 THEN path ELSE Take(path, i - 1)
             rest == IF i = 0 THEN <<>> ELSE Drop(path, i + 1)
         IN  Components(rest,
                 IF name \in {<<>>, <<".">>} THEN seen
                 ELSE IF name = <<".", ".">>
                      THEN IF seen \in ExistingDirs THEN Front(seen)
                           ELSE NoSuchPath
                      ELSE Append(seen, name))

\* os.path.isdir(path) for a string: the path, taken from the current
\* directory unless it starts with a slash, leads to an existing directory
isdir(path) ==
    /\ path # <<>>
    /\ Components(path, IF StartsWith(path, SLASH) THEN <<>>
                        ELSE Components(Cwd, <<>>)) \in ExistingDirs

\* os.path.split(path): <<head, tail>>, the head without its trailing slashes
\* unless it consists of slashes only
split(path) ==
    LET i == RFind(path, SLASH)
        head == Take(path, i)
        tail == Drop(path, i + 1)
    IN  IF head # <<>> /\ RStrip(head, SLASH) # <<>>
        THEN <<RStrip(head, SLASH), tail>>
        ELSE <<head, tail>>

\* os.path.join(a, b)
join(a, b) ==
    IF StartsWith(b, SLASH) THEN b
    ELSE IF a = <<>> \/ EndsWith(a, SLASH) THEN a \o b
    ELSE a \o <<SLASH>> \o b

\* mutant: the URL path is not split
WholeUrlPath(url_path) == url_path

\* url_path.split(SLASH)[LAST_INDEX]: what follows the last slash
LastSegment(url_path) == Drop(url_path, RFind(url_path, SLASH) + 1)

\* urlparse.urlparse(url).path for an http URL: the scheme and the network
\* location are cut off, then the fragment, the query and the parameters of
\* the last path segment
UrlPath(url) ==
    LET colon == Find(url, ":", 1)
        rest == Drop(url, colon + 1)
        hasNetloc == Len(rest) >= 2 /\ rest[1] = SLASH /\ rest[2] = SLASH
        delims == {i \in 3..Len(rest) : rest[i] \in {"/", "?", "#"}}
        netlocEnd == IF delims = {} THEN Len(rest) + 1
                     ELSE CHOOSE i \in delims : \A j \in delims : i <= j
        afterNetloc == IF hasNetloc THEN Drop(rest, netlocEnd) ELSE rest
        hash == Find(afterNetloc, "#", 1)
        noFragment == IF hash > 0 THEN Take(afterNetloc, hash - 1) ELSE afterNetloc
        quest == Find(noFragment, "?", 1)
        noQuery == IF quest > 0 THEN Take(noFragment, quest - 1) ELSE noFragment
        lastSlash == RFind(noQuery, SLASH)
        semi == Find(noQuery, ";", IF lastSlash > 0 THEN lastSlash ELSE 1)
    IN  IF semi > 0 THEN Take(noQuery, semi - 1) ELSE noQuery

\* determine_output_file_path(output_path, url, default_file_name)
determine_output_file_path(output_path, url, default_file_name) ==
    LET isNone == output_path = None
        isDirectory == ~isNone /\ isdir(output_path)
        output_directory0 ==
            IF isNone THEN None
            ELSE IF isDirectory THEN output_path
            ELSE split(output_path)[1]
        output_file_name0 ==
            IF isNone \/ isDirectory THEN None ELSE split(output_path)[2]
        output_directory ==
            IF output_directory0 = None \/ output_directory0 = <<>>
            THEN Cwd ELSE output_directory0
        url_path == UrlPath(url)
        output_file_name ==
            IF output_file_name0 = None \/ output_file_name0 = <<>>
            THEN IF EndsWith(url_path, SLASH)
                 THEN default_file_name
                 ELSE LastSegment(url_path)
            ELSE output_file_name0
    IN  join(output_directory, output_file_name)

(***************************************************************************)
(* The Content-Length header and the chunk size (download_chunks)          *)
(***************************************************************************)
Digits == {"0", "1", "2", "3", "4", "5", "6", "7", "8", "9"}
DigitValue(c) ==
    CASE c = "0" -> 0 [] c = "1" -> 1 [] c = "2" -> 2 [] c = "3" -> 3
      [] c = "4" -> 4 [] c = "5" -> 5 [] c = "6" -> 6 [] c = "7" -> 7
      [] c = "8" -> 8 [] c = "9" -> 9
\* the characters str.strip() and int() skip; "VT" stands for the vertical
\* tab, which has no escape here
Whitespace == {" ", "\t", "\n", "VT", "\f", "\r"}

\* str.strip()
strip(s) == RStripSet(LStrip(s, Whitespace), Whitespace)

RECURSIVE DigitsValue(_, _)
\* the value of a string of decimal digits, read left to right from acc
DigitsValue(s, acc) ==
    IF s = <<>> THEN acc ELSE DigitsValue(Tail(s), 10 * acc + DigitValue(Head(s)))

\* int(s): <<n>>, or <<>> where int raises ValueError. Python 2 skips
\* white space before the sign, between the sign and the digits and after
\* the digits. The value has to stay below 2^31 here.
int(s) ==
    LET text == LStrip(s, Whitespace)
        signed == Len(text) > 0 /\ text[1] \in {"-", "+"}
        digits == IF signed
                  THEN RStripSet(LStrip(Tail(text), Whitespace), Whitespace)
                  ELSE RStripSet(text, Whitespace)
    IN  IF digits = <<>> \/ \E i \in 1..Len(digits) : digits[i] \notin Digits
        THEN NoInt
        ELSE IF signed /\ text[1] = "-"
             THEN <<0 - DigitsValue(digits, 0)>>
             ELSE <<DigitsValue(digits, 0)>>

\* int(http_response.info().getheader('Content-Length').strip()), with the
\* AttributeError (no header) and the ValueError caught: <<>> is None
ParseContentLength(header) ==
    IF header = None THEN NoInt ELSE int(strip(header))

\* int(round(float(n) / d)) for d > 0: Python 2 rounds halves away from zero
RoundDiv(n, d) ==
    IF n >= 0 THEN (n + d \div 2) \div d
    ELSE 0 - ((0 - n + d \div 2) \div d)

\* mutant: the floor is not applied
ChunkSizeNoFloor(total, chunk_size_arg) ==
    IF total = NoInt THEN MINIMUM_CHUNK_SIZE
    ELSE IF chunk_size_arg = NoInt
         THEN RoundDiv(total[1], MAXIMUM_CHUNKS_NUMBER)
         ELSE chunk_size_arg[1]

\* mutant: a given chunk size is used whatever the header
ChunkSizeArgumentFirst(total, chunk_size_arg) ==
    LET size == IF chunk_size_arg # NoInt THEN chunk_size_arg[1]
                ELSE IF total = NoInt THEN MINIMUM_CHUNK_SIZE
                ELSE RoundDiv(total[1], MAXIMUM_CHUNKS_NUMBER)
    IN  IF size < MINIMUM_CHUNK_SIZE THEN MINIMUM_CHUNK_SIZE ELSE size

\* the chunk size download_chunks reads with: the floor when the header
\* does not parse, else the argument or the rounded share, floored
ChunkSize(total, chunk_size_arg) ==
    IF total = NoInt THEN MINIMUM_CHUNK_SIZE
    ELSE LET size == IF chunk_size_arg = NoInt
                     THEN RoundDiv(total[1], MAXIMUM_CHUNKS_NUMBER)
                     ELSE chunk_size_arg[1]
         IN  IF size < MINIMUM_CHUNK_SIZE THEN MINIMUM_CHUNK_SIZE ELSE size

(***************************************************************************)
(* display_progress                                                        *)
(***************************************************************************)
\* mutant: the quotient is rounded to the nearest integer
TruncDivRounded(n, d) ==
    IF n >= 0 THEN (2 * n + d) \div (2 * d)
    ELSE 0 - ((2 * (0 - n) + d) \div (2 * d))

\* count * item for a one-character string: empty when count is not positive
Repeat(item, count) == [i \in 1..count |-> item]

\* int(x) of the quotient n / d, d > 0: truncation towards zero
TruncDiv(n, d) == IF n >= 0 THEN n \div d ELSE 0 - ((0 - n) \div d)

\* what one display_progress call renders. In bar mode the ratio is the
\* fraction num / den with den > 0, after the clamp to FULL_RATIO; with a
\* ratio of 0 the division at line 190 raises before anything is written.
ProgressSnapshot(received_bytes, total) ==
    IF total # NoInt /\ total[1] # 0 /\ received_bytes = 0
    THEN [mode |-> "ZeroDivisionError", num |-> 0, den |-> 1,
          received_bytes |-> received_bytes,
          bar_items_complete |-> 0, bar_items_remaining |-> 0, bar |-> <<>>]
    ELSE IF total # NoInt /\ total[1] # 0
    THEN LET t == total[1]
             num0 == IF t > 0 THEN received_bytes ELSE 0 - received_bytes
             den0 == IF t > 0 THEN t ELSE 0 - t
             over == num0 > den0
             num == IF over THEN 1 ELSE num0
             den == IF over THEN 1 ELSE den0
             bar_items_complete == TruncDiv(num * BAR_WIDTH, den)
         IN  [mode |-> "bar", num |-> num, den |-> den,
              received_bytes |-> received_bytes,
              bar_items_complete |-> bar_items_complete,
              bar_items_remaining |-> BAR_WIDTH - bar_items_complete,
              bar |-> Repeat(ITEM_COMPLETE, bar_items_complete)
                      \o Repeat(ITEM_REMAINING,
                                BAR_WIDTH - bar_items_complete)]
    ELSE [mode |-> "simple", num |-> 0, den |-> 1,
          received_bytes |-> received_bytes,
          bar_items_complete |-> 0, bar_items_remaining |-> 0, bar |-> <<>>]

(***************************************************************************)
(* Checksums: get_checksums_mapping and the accumulators                   *)
(***************************************************************************)
\* the checksum names a caller may ask for
ChecksumNames == {"md5", "Sha1", "bogus"}
\* str.upper() and str.lower() on them
upper(name) ==
    CASE name = "md5" -> "MD5" [] name = "Sha1" -> "SHA1"
      [] name = "bogus" -> "BOGUS"
lower(name) ==
    CASE name = "md5" -> "md5" [] name = "Sha1" -> "sha1"
      [] name = "bogus" -> "bogus"
\* the algorithms hashlib.new accepts; any other name raises ValueError
SupportedAlgorithms == {"md5", "sha1", "sha256"}

\* hashlib.new(algorithm): an accumulator that has seen no update
NewHash(algorithm) == [algorithm |-> algorithm, updates |-> <<>>]
\* hash.update(chunk)
HashUpdate(hash, chunk) == [hash EXCEPT !.updates = Append(@, chunk)]
\* hash.hexdigest(): an ideal digest, one value per algorithm and per
\* concatenation of the data fed
hexdigest(hash) == <<hash.algorithm, Join(hash.updates)>>
\* the digest of data hashed at once
DigestOf(algorithm, data) == hexdigest(HashUpdate(NewHash(algorithm), data))

\* the empty dict
EmptyMapping == <<>>

RECURSIVE MappingAbortAtUnsupported(_, _)
\* mutant: the first unsupported name ends the loop
MappingAbortAtUnsupported(names, acc) ==
    IF names = <<>> THEN acc
    ELSE IF lower(Head(names)) \in SupportedAlgorithms
    THEN MappingAbortAtUnsupported(Tail(names),
             [mapping |-> (upper(Head(names)) :> NewHash(lower(Head(names))))
                              @@ acc.mapping,
              warnings |-> acc.warnings])
    ELSE [mapping |-> acc.mapping, warnings |-> Append(acc.warnings, Head(names))]

RECURSIVE MappingLoop(_, _)
\* the for loop of get_checksums_mapping over the names left: a supported
\* name gets a fresh accumulator under its upper-case name, an unsupported
\* one (ValueError) is logged
MappingLoop(names, acc) ==
    IF names = <<>> THEN acc
    ELSE IF lower(Head(names)) \in SupportedAlgorithms
    THEN MappingLoop(Tail(names),
             [mapping |-> (upper(Head(names)) :> NewHash(lower(Head(names))))
                              @@ acc.mapping,
              warnings |-> acc.warnings])
    ELSE MappingLoop(Tail(names),
             [mapping |-> acc.mapping,
              warnings |-> Append(acc.warnings, Head(names))])

\* get_checksums_mapping(checksums_sequence): the mapping and the warnings
\* logged; iterating None raises TypeError, which is passed over
get_checksums_mapping(checksums_sequence) ==
    IF checksums_sequence = None
    THEN [mapping |-> EmptyMapping, warnings |-> <<>>]
    ELSE MappingLoop(checksums_sequence,
                     [mapping |-> EmptyMapping, warnings |-> <<>>])

\* mutant: every accumulator is fed the chunk twice
UpdateChecksumsTwice(checksums, chunk) ==
    [k \in DOMAIN checksums |-> HashUpdate(HashUpdate(checksums[k], chunk), chunk)]

\* for single_checksum in checksums.values(): single_checksum.update(chunk)
UpdateChecksums(checksums, chunk) ==
    [k \in DOMAIN checksums |-> HashUpdate(checksums[k], chunk)]

(***************************************************************************)
(* Inputs                                                                  *)
(***************************************************************************)
\* response bodies: n distinct bytes, so that a dropped, repeated or
\* misplaced byte shows
Bodies == {[i \in 1..n |-> i] : n \in 0..MaxBody}

\* Content-Length headers a server may send (None: no such header)
Headers ==
    { None, <<"a", "b">>, <<"-", "5">>, <<"-", " ", "5">>, <<"0">>,
      <<" ", "2", " ">>,
      <<"1", "3", "1", "0", "7", "2", "0", "0", "0", "0">> }

\* the checksum names asked for: None or a list
ChecksumRequests == {None} \cup SeqsUpTo(ChecksumNames, MaxNames)

\* main's URLs and output paths
HttpPrefix == <<"h", "t", "t", "p", ":", "/", "/", "h">>
MainUrls == { HttpPrefix \o <<"/", "a", "/", "b">> }
MainOutputPaths == { DASH, None, <<"d">>, <<"d", "/", "f">> }
\* output_file_path arguments of a direct save_to_file call
SaveOutputFilePaths == { None, <<>>, <<"f">> }
\* chunk_size arguments of a direct download_chunks call
ChunkSizeArgs == { <<1>>, <<65536>>, <<70000>> }

(***************************************************************************)
(* State                                                                   *)
(***************************************************************************)
VARIABLES
    pc,                  \* where the transfer stands
    entry,               \* the function the caller entered through
    output_path,         \* main: options.output_path
    url,                 \* main: the URL
    output_file_path,    \* save_to_file: output_file_path (None: none)
    calculate_checksums, \* the checksum names asked for
    show_progress,       \* the show_progress the caller asked for
    output_file,         \* download_chunks: "file", "stdout" or "none"
    dc_show_progress,    \* download_chunks: its show_progress argument
    chunk_size_arg,      \* download_chunks: its chunk_size argument
    checksums,           \* the mapping of accumulators
    warnings,            \* names logged by logging.warn
    header,              \* the response's Content-Length header
    sent,                \* the bytes the server sends after the headers
    body,                \* the response body: what reads of it deliver
    body_left,           \* what of it has not been read yet
    total_bytes,         \* download_chunks: total_bytes
    chunk_size,          \* download_chunks: chunk_size
    chunk,               \* download_chunks: chunk
    received_bytes,      \* download_chunks: received_bytes
    saved_content,       \* download_chunks: saved_content
    reads,               \* every http_response.read call: size and result
    written,             \* every output_file.write call: its argument
    progress,            \* every display_progress call: what it rendered
    file_state,          \* the destination file: "none", "open", "closed"
    file_opens,          \* the number of open() calls
    requests,            \* the number of urllib2.urlopen calls
    chunks_received,     \* the number of chunks updated, written and counted
    response_state,      \* the HTTP response: "none", "open", "closed"
    result,              \* <<>> or <<the namespace returned>>
    exception            \* the exception that ended the call, "none" if none

vars == <<pc, entry, output_path, url, output_file_path, calculate_checksums,
          show_progress, output_file, dc_show_progress, chunk_size_arg,
          checksums, warnings, header, sent, body, body_left, total_bytes,
          chunk_size, chunk, received_bytes, saved_content, reads, written,
          progress, file_state, file_opens, response_state, result, exception,
          requests, chunks_received>>

callVars == <<entry, output_path, url, output_file_path, calculate_checksums,
              show_progress, output_file, dc_show_progress, chunk_size_arg,
              warnings>>
loopVars == <<total_bytes, chunk_size, chunk, received_bytes, saved_content,
              reads, written, progress, checksums, chunks_received>>

Init ==
    /\ pc = "Idle"
    /\ entry = "none"
    /\ output_path = None
    /\ url = <<>>
    /\ output_file_path = None
    /\ calculate_checksums = None
    /\ show_progress = FALSE
    /\ output_file = "none"
    /\ dc_show_progress = FALSE
    /\ chunk_size_arg = NoInt
    /\ checksums = EmptyMapping
    /\ warnings = <<>>
    /\ header = None
    /\ sent = <<>>
    /\ body = <<>>
    /\ body_left = <<>>
    /\ total_bytes = NoInt
    /\ chunk_size = NoInt
    /\ chunk = <<>>
    /\ received_bytes = 0
    /\ saved_content = <<>>
    /\ reads = <<>>
    /\ written = <<>>
    /\ progress = <<>>
    /\ file_state = "none"
    /\ file_opens = 0
    /\ requests = 0
    /\ chunks_received = 0
    /\ response_state = "none"
    /\ result = <<>>
    /\ exception = "none"

(***************************************************************************)
(* Entering: main, save_to_file, get_content, download_chunks              *)
(***************************************************************************)
\* mutant: display_directly hands the caller's show_progress on
DisplayDirectlyShowProgressKept(asked) == asked

\* the show_progress display_directly passes to download_chunks
DisplayDirectlyShowProgress(asked) == FALSE

\* save_to_file up to its get_http_response call: without an output file
\* path it is display_directly, which builds no checksums mapping
SaveToFileEnter(path, names, asked) ==
    /\ output_file_path' = path
    /\ calculate_checksums' = names
    /\ show_progress' = asked
    /\ chunk_size_arg' = NoInt
    /\ IF path = None \/ path = <<>>
       THEN /\ output_file' = "stdout"
            /\ dc_show_progress' = DisplayDirectlyShowProgress(asked)
            /\ checksums' = EmptyMapping
            /\ warnings' = <<>>
       ELSE /\ output_file' = "file"
            /\ dc_show_progress' = asked
            /\ checksums' = get_checksums_mapping(names).mapping
            /\ warnings' = get_checksums_mapping(names).warnings
    /\ pc' = "Called"
    /\ UNCHANGED <<header, sent, body, body_left, total_bytes, chunk_size, chunk,
                   received_bytes, saved_content, reads, written, progress,
                   file_state, file_opens, requests, chunks_received, response_state, result, exception>>

\* main(command_line_options), to save_to_file's get_http_response call
Main ==
    \E path \in MainOutputPaths, u \in MainUrls,
       names \in ChecksumRequests \ {None}, asked \in BOOLEAN :
        /\ pc = "Idle"
        /\ entry' = "main"
        /\ output_path' = path
        /\ url' = u
        /\ SaveToFileEnter(
               IF path = DASH THEN None
               ELSE determine_output_file_path(path, u, DIRECTORY_INDEX),
               names, asked)

\* save_to_file(url, calculate_checksums, output_file_path, show_progress)
SaveToFile ==
    \E path \in SaveOutputFilePaths, names \in ChecksumRequests,
       asked \in BOOLEAN :
        /\ pc = "Idle"
        /\ entry' = "save_to_file"
        /\ SaveToFileEnter(path, names, asked)
        /\ UNCHANGED <<output_path, url>>

\* get_content(url, calculate_checksums, show_progress), to its
\* get_http_response call
GetContent ==
    \E names \in ChecksumRequests, asked \in BOOLEAN :
        /\ pc = "Idle"
        /\ entry' = "get_content"
        /\ calculate_checksums' = names
        /\ show_progress' = asked
        /\ output_file' = "none"
        /\ dc_show_progress' = asked
        /\ checksums' = get_checksums_mapping(names).mapping
        /\ warnings' = get_checksums_mapping(names).warnings
        /\ pc' = "Called"
        /\ UNCHANGED <<output_path, url, output_file_path, chunk_size_arg,
                       header, sent, body, body_left, total_bytes, chunk_size, chunk,
                       received_bytes, saved_content, reads, written, progress,
                       file_state, file_opens, requests, chunks_received, response_state, result, exception>>

\* a caller of download_chunks(http_response, chunk_size=...) that gives a
\* chunk size, on a response it is about to obtain
DownloadChunksWithChunkSize ==
    \E size \in ChunkSizeArgs, out \in {"none", "stdout"} :
        /\ pc = "Idle"
        /\ entry' = "download_chunks"
        /\ chunk_size_arg' = size
        /\ output_file' = out
        /\ pc' = "Called"
        /\ UNCHANGED <<output_path, url, output_file_path, calculate_checksums,
                       show_progress, dc_show_progress, checksums, warnings,
                       header, sent, body, body_left, total_bytes, chunk_size, chunk,
                       received_bytes, saved_content, reads, written, progress,
                       file_state, file_opens, requests, chunks_received, response_state, result, exception>>

(***************************************************************************)
(* get_http_response and open                                              *)
(***************************************************************************)
\* the body of a response with header h to which the server sends b: all of
\* b, or, when the header declares fewer bytes and the transfer is not
\* chunked, the bytes declared (the library reads no further)
DeliveredBodies(h, b) ==
    LET declared == ParseContentLength(h)
    IN  {b} \cup
        (IF declared # NoInt /\ declared[1] >= 0 /\ declared[1] < Len(b)
         THEN {Take(b, declared[1])} ELSE {})

\* urllib2.urlopen returns a response
GetHttpResponse ==
    /\ pc = "Called"
    /\ \E h \in Headers, b \in Bodies : \E d \in DeliveredBodies(h, b) :
        /\ header' = h
        /\ sent' = b
        /\ body' = d
        /\ body_left' = d
        /\ response_state' = "open"
        /\ pc' = "RequestSent"
        /\ requests' = requests + 1
        /\ UNCHANGED <<callVars, loopVars, file_state, file_opens, result, exception>>

\* urllib2.urlopen raises
GetHttpResponseFails ==
    /\ pc = "Called"
    /\ requests' = requests + 1
    /\ pc' = "Failed"
    /\ exception' = "URLError"
    /\ UNCHANGED <<callVars, loopVars, header, sent, body, body_left, file_state,
                   file_opens, response_state, result>>

\* save_to_file: open(output_file_path, MODE_WRITE_BINARY) succeeds
OpenOutputFile ==
    /\ pc = "RequestSent"
    /\ output_file = "file"
    /\ file_state' = "open"
    /\ file_opens' = file_opens + 1
    /\ pc' = "Opened"
    /\ UNCHANGED <<callVars, loopVars, header, sent, body, body_left,
                   response_state, requests, result, exception>>

\* save_to_file: open raises; nothing closes the response
OpenOutputFileFails ==
    /\ pc = "RequestSent"
    /\ output_file = "file"
    /\ file_opens' = file_opens + 1
    /\ pc' = "Failed"
    /\ exception' = "IOError"
    /\ UNCHANGED <<callVars, loopVars, header, sent, body, body_left, file_state,
                   response_state, requests, result>>

(***************************************************************************)
(* download_chunks                                                         *)
(***************************************************************************)
\* what http_response.read(size) may return: nothing once the body is
\* exhausted, else at least one and at most size of the bytes left
ReadResults(left, size) ==
    IF left = <<>> \/ size = 0 THEN {<<>>}
    ELSE {Take(left, k) : k \in {j \in 1..Len(left) : size < 0 \/ j <= size}}

\* the file is closed when the with block of save_to_file is left
WithExit(state) == IF state = "open" THEN "closed" ELSE state

\* mutant: a read that raises is tried again and the download goes on
ReadChunkRetried(size) ==
    \E c \in ReadResults(body_left, size), failed \in BOOLEAN :
        /\ chunk' = c
        /\ body_left' = Drop(body_left, Len(c) + 1)
        /\ reads' =
               (IF failed
                THEN Append(reads, [size |-> size, data |-> <<>>, raised |-> TRUE])
                ELSE reads)
               \o <<[size |-> size, data |-> c, raised |-> FALSE]>>
        /\ response_state' \in {response_state, "closed"}
        /\ file_state' = file_state
        /\ exception' = exception
        /\ pc' = "Streaming"

\* chunk = http_response.read(chunk_size): it returns, or it raises and the
\* error leaves download_chunks and its callers. The code never closes the
\* response; the library may release the connection in any read, one that
\* returns (it has taken the end of the body off the socket) or one that
\* raises. When the read raises inside the with block of save_to_file, the
\* exit closes the file; a close that raises replaces the read error by its
\* IOError.
ReadChunk(size) ==
    \/ \E c \in ReadResults(body_left, size) :
        /\ chunk' = c
        /\ body_left' = Drop(body_left, Len(c) + 1)
        /\ reads' = Append(reads, [size |-> size, data |-> c, raised |-> FALSE])
        /\ response_state' \in {response_state, "closed"}
        /\ file_state' = file_state
        /\ exception' = exception
        /\ pc' = "Streaming"
    \/  /\ chunk' = chunk
        /\ body_left' = body_left
        /\ reads' = Append(reads, [size |-> size, data |-> <<>>, raised |-> TRUE])
        /\ response_state' \in {response_state, "closed"}
        /\ file_state' = WithExit(file_state)
        /\ exception' \in {"ReadError"} \cup
                          (IF file_state = "open" THEN {"IOError"} ELSE {})
        /\ pc' = "Failed"

\* download_chunks from its first line to the first read
DownloadChunksStart ==
    /\ \/ pc = "Opened"
       \/ pc = "RequestSent" /\ output_file # "file"
    /\ total_bytes' = ParseContentLength(header)
    /\ chunk_size' = <<ChunkSize(total_bytes', chunk_size_arg)>>
    /\ received_bytes' = 0
    /\ chunks_received' = 0
    /\ saved_content' = <<>>
    /\ ReadChunk(chunk_size'[1])
    /\ UNCHANGED <<callVars, checksums, header, sent, body, written, progress,
                   file_opens, requests, result>>

\* mutant: the chunk goes in front of what was written
WriteChunkInFront(sink, data) == <<data>> \o sink

\* output_file.write(chunk), saved_content.append(chunk)
WriteChunk(sink, data) == Append(sink, data)

\* one pass of the while loop: a non-empty chunk is fed to every
\* accumulator, written or saved, counted and shown, then the next is read
ProcessChunk ==
    /\ pc = "Streaming"
    /\ chunk # <<>>
    /\ checksums' = UpdateChecksums(checksums, chunk)
    /\ IF output_file # "none"
       THEN written' = WriteChunk(written, chunk) /\ saved_content' = saved_content
       ELSE saved_content' = WriteChunk(saved_content, chunk) /\ written' = written
    /\ received_bytes' = received_bytes + Len(chunk)
    /\ chunks_received' = chunks_received + 1
    /\ progress' = IF dc_show_progress
                   THEN Append(progress,
                               ProgressSnapshot(received_bytes', total_bytes))
                   ELSE progress
    /\ ReadChunk(chunk_size[1])
    /\ UNCHANGED <<callVars, header, sent, body, total_bytes, chunk_size,
                   file_opens, requests, result>>

\* one pass of the while loop in which display_progress raises on writing
\* to or flushing the stream: the chunk has been fed to the accumulators,
\* written or saved and counted
DisplayProgressFails ==
    /\ pc = "Streaming"
    /\ chunk # <<>>
    /\ dc_show_progress
    /\ checksums' = UpdateChecksums(checksums, chunk)
    /\ IF output_file # "none"
       THEN written' = WriteChunk(written, chunk) /\ saved_content' = saved_content
       ELSE saved_content' = WriteChunk(saved_content, chunk) /\ written' = written
    /\ received_bytes' = received_bytes + Len(chunk)
    /\ chunks_received' = chunks_received + 1
    /\ file_state' = WithExit(file_state)
    /\ exception' = "IOError"
    /\ pc' = "Failed"
    /\ UNCHANGED <<callVars, header, sent, body, body_left, total_bytes,
                   chunk_size, chunk, reads, progress, file_opens, requests,
                   response_state, result>>

\* one pass of the while loop in which output_file.write raises: the
\* accumulators have been fed, nothing more happens
WriteFails ==
    /\ pc = "Streaming"
    /\ chunk # <<>>
    /\ output_file # "none"
    /\ checksums' = UpdateChecksums(checksums, chunk)
    /\ file_state' = WithExit(file_state)
    /\ pc' = "Failed"
    /\ exception' = "IOError"
    /\ UNCHANGED <<callVars, header, sent, body, body_left, total_bytes, chunk_size,
                   chunk, received_bytes, saved_content, reads, written,
                   progress, file_opens, requests, chunks_received, response_state, result>>

\* the empty chunk ends the loop: download_chunks returns its namespace and
\* the callers return it (save_to_file leaves its with block). Four things
\* can raise on the way: sys.stderr.write(NEWLINE) at line 263 when progress
\* is shown, the division by elapsed_time at line 267, which is 0.0 when the
\* timer has not moved since start_time, sys.stdout.flush() at line 295 of
\* display_directly, and the close of the file at the end of the with block.
Return ==
    /\ pc = "Streaming"
    /\ chunk = <<>>
    /\ file_state' = WithExit(file_state)
    /\ \/ /\ result' = <<[checksums |-> checksums,
                          content |-> Join(saved_content),
                          received_bytes |-> received_bytes,
                          returncode |-> RC_OK]>>
          /\ exception' = exception
          /\ pc' = "Finalized"
       \/ /\ result' = result
          /\ exception' = "ZeroDivisionError"
          /\ pc' = "Failed"
       \/ /\ \/ dc_show_progress
             \/ file_state = "open"
             \/ output_file = "stdout" /\ entry \in {"main", "save_to_file"}
          /\ result' = result
          /\ exception' = "IOError"
          /\ pc' = "Failed"
    /\ UNCHANGED <<callVars, loopVars, header, sent, body, body_left, file_opens,
                   requests, response_state>>

Next ==
    \/ Main
    \/ SaveToFile
    \/ GetContent
    \/ DownloadChunksWithChunkSize
    \/ GetHttpResponse
    \/ GetHttpResponseFails
    \/ OpenOutputFile
    \/ OpenOutputFileFails
    \/ DownloadChunksStart
    \/ ProcessChunk
    \/ WriteFails
    \/ DisplayProgressFails
    \/ Return

Spec == Init /\ [][Next]_vars

(***************************************************************************)
(* determine_output_file_path on its own                                   *)
(***************************************************************************)
PathChars == {"/", "d", "f"}
TailChars == {"/", "a", "?", ";", "#"}
OutputPaths == {None} \cup SeqsUpTo(PathChars, MaxPath)
Urls == {HttpPrefix \o tail : tail \in SeqsUpTo(TailChars, MaxTail)}

\* main is given an output path and a URL
PathInit ==
    /\ pc = "Idle"
    /\ entry = "main"
    /\ output_path \in OutputPaths
    /\ url \in Urls
    /\ output_file_path = None
    /\ calculate_checksums = <<>>
    /\ show_progress = FALSE
    /\ output_file = "none"
    /\ dc_show_progress = FALSE
    /\ chunk_size_arg = NoInt
    /\ checksums = EmptyMapping
    /\ warnings = <<>>
    /\ header = None
    /\ sent = <<>>
    /\ body = <<>>
    /\ body_left = <<>>
    /\ total_bytes = NoInt
    /\ chunk_size = NoInt
    /\ chunk = <<>>
    /\ received_bytes = 0
    /\ saved_content = <<>>
    /\ reads = <<>>
    /\ written = <<>>
    /\ progress = <<>>
    /\ file_state = "none"
    /\ file_opens = 0
    /\ requests = 0
    /\ chunks_received = 0
    /\ response_state = "none"
    /\ result = <<>>
    /\ exception = "none"

\* determine_output_file_path(output_path, url) as main calls it
DetermineOutputFilePath ==
    /\ pc = "Idle"
    /\ output_file_path' = determine_output_file_path(output_path, url,
                                                      DIRECTORY_INDEX)
    /\ pc' = "Resolved"
    /\ UNCHANGED <<entry, output_path, url, calculate_checksums, show_progress,
                   output_file, dc_show_progress, chunk_size_arg, warnings,
                   loopVars, header, sent, body, body_left, file_state, file_opens, requests,
                   response_state, result, exception>>

PathNext == DetermineOutputFilePath

SpecPath == PathInit /\ [][PathNext]_vars

(***************************************************************************)
(* download_chunks on responses that declare their size: the chunk size    *)
(***************************************************************************)
DigitChar(d) ==
    CASE d = 0 -> "0" [] d = 1 -> "1" [] d = 2 -> "2" [] d = 3 -> "3"
      [] d = 4 -> "4" [] d = 5 -> "5" [] d = 6 -> "6" [] d = 7 -> "7"
      [] d = 8 -> "8" [] d = 9 -> "9"

RECURSIVE Decimal(_)
\* the Content-Length header a server sends for a body of n bytes
Decimal(n) ==
    IF n < 10 THEN <<DigitChar(n)>>
    ELSE Append(Decimal(n \div 10), DigitChar(n % 10))

\* the body sizes: small ones, and those around the sizes from which the
\* chunk size is the rounded share of the total
ChunkTotals ==
    (0..MaxDelta) \cup
    { m * MAXIMUM_CHUNKS_NUMBER * MINIMUM_CHUNK_SIZE + d :
          m \in 1..3, d \in (0 - MaxDelta)..MaxDelta }

\* the number of reads that return data when each returns size bytes until
\* total bytes are exhausted
FullChunks(total, size) == (total + size - 1) \div size

\* download_chunks(http_response) is called on a response that declares
\* its size; the body is known by its length only
ChunksInit ==
    /\ pc = "RequestSent"
    /\ entry = "download_chunks"
    /\ header \in {Decimal(t) : t \in ChunkTotals}
    /\ output_path = None
    /\ url = <<>>
    /\ output_file_path = None
    /\ calculate_checksums = None
    /\ show_progress = FALSE
    /\ output_file = "none"
    /\ dc_show_progress = FALSE
    /\ chunk_size_arg = NoInt
    /\ checksums = EmptyMapping
    /\ warnings = <<>>
    /\ sent = <<>>
    /\ body = <<>>
    /\ body_left = <<>>
    /\ total_bytes = NoInt
    /\ chunk_size = NoInt
    /\ chunk = <<>>
    /\ received_bytes = 0
    /\ saved_content = <<>>
    /\ reads = <<>>
    /\ written = <<>>
    /\ progress = <<>>
    /\ file_state = "none"
    /\ file_opens = 0
    /\ requests = 1
    /\ chunks_received = 0
    /\ response_state = "open"
    /\ result = <<>>
    /\ exception = "none"

\* download_chunks from its first line to the line before its first read:
\* the declared total is parsed and the chunk size is determined
DetermineChunkSize ==
    /\ pc = "RequestSent"
    /\ total_bytes' = ParseContentLength(header)
    /\ chunk_size' = <<ChunkSize(total_bytes', chunk_size_arg)>>
    /\ pc' = "Sized"
    /\ UNCHANGED <<callVars, header, sent, body, body_left, chunk, received_bytes,
                   saved_content, reads, written, progress, checksums, file_state,
                   file_opens, requests, chunks_received, response_state, result,
                   exception>>

ChunksNext == DetermineChunkSize

SpecChunks == ChunksInit /\ [][ChunksNext]_vars

(***************************************************************************)
(* display_progress on its own                                             *)
(***************************************************************************)
\* a caller is about to call display_progress with a number of bytes
\* received and a total
ProgressInit ==
    /\ pc = "Streaming"
    /\ entry = "display_progress"
    /\ received_bytes \in 0..MaxReceived
    /\ total_bytes \in {NoInt} \cup {<<t>> : t \in (0 - MaxTotal)..MaxTotal}
    /\ dc_show_progress = TRUE
    /\ show_progress = TRUE
    /\ header = None
    /\ output_path = None
    /\ url = <<>>
    /\ output_file_path = None
    /\ calculate_checksums = None
    /\ output_file = "none"
    /\ chunk_size_arg = NoInt
    /\ checksums = EmptyMapping
    /\ warnings = <<>>
    /\ sent = <<>>
    /\ body = <<>>
    /\ body_left = <<>>
    /\ chunk_size = <<MINIMUM_CHUNK_SIZE>>
    /\ chunk = <<>>
    /\ saved_content = <<>>
    /\ reads = <<>>
    /\ written = <<>>
    /\ progress = <<>>
    /\ file_state = "none"
    /\ file_opens = 0
    /\ requests = 1
    /\ chunks_received = 1
    /\ response_state = "open"
    /\ result = <<>>
    /\ exception = "none"

\* display_progress(received_bytes, start_time, total_bytes=total_bytes):
\* the line is written and flushed, or the division at line 190 raises
\* before anything is written, or stream.write (lines 193-203) or
\* stream.flush (line 205) raises
DisplayProgress ==
    /\ pc = "Streaming"
    /\ LET shown == ProgressSnapshot(received_bytes, total_bytes)
       IN  IF shown.mode = "ZeroDivisionError"
           THEN /\ progress' = progress
                /\ exception' = "ZeroDivisionError"
                /\ pc' = "Failed"
           ELSE \/ /\ progress' = Append(progress, shown)
                   /\ exception' = exception
                   /\ pc' = "Shown"
                \/ /\ progress' = progress
                   /\ exception' = "IOError"
                   /\ pc' = "Failed"
    /\ UNCHANGED <<callVars, header, sent, body, body_left, total_bytes, chunk_size,
                   chunk, received_bytes, saved_content, reads, written,
                   checksums, chunks_received, file_state, file_opens,
                   requests, response_state, result>>

ProgressNext == DisplayProgress

SpecProgress == ProgressInit /\ [][ProgressNext]_vars

(***************************************************************************)
(* Properties                                                              *)
(***************************************************************************)
\* what the read calls so far returned, in call order
ReadData == [i \in 1..Len(reads) |-> reads[i].data]
\* the chunks the loop has been through: all but the one just read
ChunksProcessed == Front(ReadData)
AtLoopBoundary == pc \in {"Streaming", "Finalized"}
Max(a, b) == IF a >= b THEN a ELSE b

\* C1: the chunks written to the output file, or the content returned, are
\* the non-empty chunks read, each once and in read order; at the end they
\* make up the body the server sent.
C1_WrittenIsChunksInOrder ==
    /\ AtLoopBoundary =>
           IF output_file # "none"
           THEN written = ChunksProcessed /\ saved_content = <<>>
           ELSE saved_content = ChunksProcessed /\ written = <<>>
    /\ pc = "Finalized" =>
           /\ \A i \in 1..Len(ChunksProcessed) : ChunksProcessed[i] # <<>>
           /\ Join(written) \o result[1].content = body
           /\ output_file = "none" => result[1].content = Join(ChunksProcessed)

C1_Witness ==
    /\ pc = "Finalized"
    /\ output_file = "file"
    /\ Len(written) = 3
    /\ Len(body) = 3

\* C2: at every loop boundary every accumulator has been updated with the
\* chunks processed so far, each once and in stream order; after the loop
\* it has seen the whole body.
C2_AccumulatorsSeeEveryChunkOnce ==
    /\ AtLoopBoundary =>
           \A k \in DOMAIN checksums : checksums[k].updates = ChunksProcessed
    /\ pc = "Finalized" =>
           \A k \in DOMAIN result[1].checksums :
               Join(result[1].checksums[k].updates) = body

C2_Witness ==
    /\ pc = "Finalized"
    /\ Cardinality(DOMAIN checksums) = 2
    /\ Len(reads) = 3
    /\ Len(body) = 2

\* C3 (as claimed): a transfer through save_to_file or get_content returns,
\* for every supported name asked for, an accumulator whose digest is the
\* digest of the whole body, whatever the destination.
C3_EveryRequestedDigestReturned ==
    (pc = "Finalized" /\ entry \in {"main", "save_to_file", "get_content"}
        /\ calculate_checksums # None) =>
        \A i \in 1..Len(calculate_checksums) :
            LET name == calculate_checksums[i]
            IN  lower(name) \in SupportedAlgorithms =>
                    /\ upper(name) \in DOMAIN result[1].checksums
                    /\ hexdigest(result[1].checksums[upper(name)])
                           = DigestOf(lower(name), body)

\* C4: every read is asked for at least MINIMUM_CHUNK_SIZE bytes, whatever
\* the header and the chunk_size argument.
C4_ReadSizeAtLeastMinimum ==
    \A i \in 1..Len(reads) : reads[i].size >= MINIMUM_CHUNK_SIZE

C4_Witness ==
    /\ Len(reads) >= 1
    /\ chunk_size_arg = <<1>>
    /\ total_bytes # NoInt

\* C5 (as claimed): with a chunk_size argument, every read is asked for
\* exactly that many bytes.
C5_ReadSizeIsArgument ==
    chunk_size_arg # NoInt =>
        \A i \in 1..Len(reads) : reads[i].size = chunk_size_arg[1]

\* C5 (amended): with a chunk_size argument, every read is asked for the
\* argument raised to MINIMUM_CHUNK_SIZE when the Content-Length header
\* parses as an integer, and for MINIMUM_CHUNK_SIZE when it is missing or
\* does not parse.
C5_ReadSizeIsArgumentFlooredIfParsed ==
    chunk_size_arg # NoInt =>
        \A i \in 1..Len(reads) :
            reads[i].size =
                IF header = None \/ int(strip(header)) = NoInt
                THEN MINIMUM_CHUNK_SIZE
                ELSE Max(chunk_size_arg[1], MINIMUM_CHUNK_SIZE)

C5_Witness ==
    /\ Len(reads) >= 2
    /\ chunk_size_arg = <<70000>>
    /\ header = <<" ", "2", " ">>
    /\ reads[2].size = 70000

\* a / b <= c / d for fractions with positive denominators
RatioLeq(x, y) ==
    IF x.den = y.den THEN x.num <= y.num ELSE x.num * y.den <= y.num * x.den

\* C6 (as claimed): when the content length is known, the ratios that the
\* display_progress calls of a transfer show never decrease and never
\* exceed 1.
C6_RatioNeverDecreases ==
    total_bytes # NoInt =>
        /\ \A i \in 1..Len(progress) :
               progress[i].mode = "bar" => progress[i].num <= progress[i].den
        /\ \A i \in 1..(Len(progress) - 1) :
               (progress[i].mode = "bar" /\ progress[i + 1].mode = "bar") =>
                   RatioLeq(progress[i], progress[i + 1])

\* C7: main with output_path '-' writes every chunk to standard output,
\* opens no file and never calls display_progress.
C7_DashWritesAllToStdout ==
    (entry = "main" /\ output_path = DASH) =>
        /\ file_opens = 0
        /\ file_state = "none"
        /\ progress = <<>>
        /\ output_file = "stdout"
        /\ AtLoopBoundary => written = ChunksProcessed
        /\ pc = "Finalized" => Join(written) = body

C7_Witness ==
    /\ entry = "main"
    /\ output_path = DASH
    /\ show_progress
    /\ pc = "Finalized"
    /\ Len(written) = 2

\* C8: for an existing directory the result is the directory, a slash
\* unless it ends in one, and a file name: what follows the last slash of
\* the URL path, or DIRECTORY_INDEX when the URL path ends in a slash.
C8_DirectoryGetsNameFromUrl ==
    (pc = "Resolved" /\ output_path # None /\ isdir(output_path)) =>
        LET url_path == UrlPath(url)
            separator == IF output_path[Len(output_path)] = SLASH
                         THEN <<>> ELSE <<SLASH>>
        IN  \E k \in 0..Len(url_path) :
                /\ k = 0 \/ url_path[k] = SLASH
                /\ \A i \in (k + 1)..Len(url_path) : url_path[i] # SLASH
                /\ output_file_path =
                       output_path \o separator \o
                       (IF k > 0 /\ k = Len(url_path)
                        THEN DIRECTORY_INDEX
                        ELSE SubSeq(url_path, k + 1, Len(url_path)))

C8_Witness ==
    /\ pc = "Resolved"
    /\ output_path = <<"d">>
    /\ url = HttpPrefix \o <<"/", "a", "?">>
    /\ output_file_path = <<"d", "/", "a">>

\* the transfers that call get_checksums_mapping
MappingBuilt ==
    /\ pc # "Idle"
    /\ \/ entry = "get_content"
       \/ entry \in {"main", "save_to_file"} /\ output_file = "file"

\* C9: get_checksums_mapping holds an accumulator for exactly the supported
\* names asked for and has logged each unsupported one, and the transfer
\* goes on with those accumulators.
C9_MappingHoldsExactlySupportedNames ==
    MappingBuilt =>
        LET names == IF calculate_checksums = None THEN <<>>
                     ELSE calculate_checksums
            supported == {i \in 1..Len(names) :
                              lower(names[i]) \in SupportedAlgorithms}
            Unsupported(name) == lower(name) \notin SupportedAlgorithms
        IN  /\ DOMAIN checksums = {upper(names[i]) : i \in supported}
            /\ \A i \in supported :
                   checksums[upper(names[i])].algorithm = lower(names[i])
            /\ warnings = SelectSeq(names, Unsupported)
            /\ pc = "Finalized" => DOMAIN result[1].checksums = DOMAIN checksums

C9_Witness ==
    /\ pc = "Finalized"
    /\ calculate_checksums = <<"bogus", "Sha1">>
    /\ DOMAIN result[1].checksums = {"SHA1"}
    /\ warnings = <<"bogus">>
    /\ Len(body) = 2

\* C10 (as claimed): when the call has returned or raised, neither the
\* destination file nor the HTTP response is still open.
C10_BothReleasedOnExit ==
    pc \in {"Finalized", "Failed"} =>
        file_state # "open" /\ response_state # "open"

\* download_chunks has parsed the header
HeaderParsed == chunk_size # NoInt

\* C11 (as claimed): the total is known exactly when the Content-Length
\* header is there and is a non-negative integer; when it is missing, not
\* a number or negative, total_bytes is None.
C11_TotalKnownOnlyIfNonNegative ==
    HeaderParsed =>
        LET text == IF header = None THEN <<>> ELSE strip(header)
            unsigned == IF Len(text) > 0 /\ text[1] = "+" THEN Tail(text) ELSE text
            nonNegative ==
                /\ header # None
                /\ unsigned # <<>>
                /\ \A i \in 1..Len(unsigned) : unsigned[i] \in Digits
        IN  IF nonNegative
            THEN total_bytes = <<DigitsValue(unsigned, 0)>>
            ELSE total_bytes = NoInt

\* the state of the transfer, in the terms of the state machine: the request
\* is under way from the get_http_response call (which logs 'Request sent'
\* before urllib2.urlopen) until download_chunks has read its first chunk
Phase(p) ==
    CASE p = "Idle" -> "Idle"
      [] p \in {"Called", "RequestSent", "Opened"} -> "RequestSent"
      [] p = "Streaming" -> "Streaming"
      [] p = "Finalized" -> "Finalized"
      [] p = "Failed" -> "Failed"

PhaseSteps ==
    { <<"Idle", "RequestSent">>, <<"RequestSent", "RequestSent">>,
      <<"RequestSent", "Streaming">>, <<"Streaming", "Streaming">>,
      <<"Streaming", "Finalized">>,
      <<"RequestSent", "Failed">>, <<"Streaming", "Failed">> }

\* the errors a transfer can meet: of the request, of the destination file
\* and of the response
TransferErrors == {"URLError", "IOError", "ReadError"}

\* what every step of a transfer does
C12_Step ==
    /\ <<Phase(pc), Phase(pc')>> \in PhaseSteps
    /\ requests' = IF pc = "Called" THEN requests + 1 ELSE requests
    /\ (pc = "Streaming" /\ chunk # <<>> /\ pc' = "Streaming") =>
           /\ chunks_received' = chunks_received + 1
           /\ Len(reads') = Len(reads) + 1
    /\ (pc = "Streaming" /\ chunk = <<>>) =>
           /\ \/ pc' = "Finalized"
              \/ pc' = "Failed" /\ exception' \in TransferErrors
           /\ reads' = reads
           /\ checksums' = checksums
           /\ written' = written
           /\ saved_content' = saved_content

\* what holds of a transfer at any time
C12_State ==
    /\ requests <= 1
    /\ Phase(pc) \in {"Streaming", "Finalized"} => requests = 1
    /\ pc = "Failed" => exception \in TransferErrors
    /\ pc = "Finalized" =>
           /\ reads[Len(reads)].data = <<>>
           /\ chunks_received = Len(reads) - 1
           /\ \A i \in 1..(Len(reads) - 1) : reads[i].data # <<>>

\* C12 (as claimed): a transfer moves only along Idle, RequestSent,
\* Streaming, Finalized, or to Failed on an error from a state other than
\* Idle; the request is issued once; Streaming is repeated once per
\* non-empty chunk; the first empty chunk leads to Finalized with no further
\* read, update or write; and a transfer that meets no error of the request,
\* the file or the response ends in Finalized. That it ends is claimed of
\* the transfers in which every wait ends (the call is made, and urlopen,
\* open, read, write, flush and close return or raise): the program sets no
\* timeout, and every step of it waits for the caller, the server, the file
\* system or a stream, so the specification itself states no fairness.
C12_TransferStateMachine ==
    /\ [][C12_Step]_vars
    /\ [](C12_State)
    /\ WF_vars(Next) => <>(pc \in {"Finalized", "Failed"})

\* C13 (as claimed): when the total is known, no chunk size is given and
\* every read returns a full chunk, at most MAXIMUM_CHUNKS_NUMBER chunks
\* are read, whatever the total.
C13_AtMostMaximumChunks ==
    (pc = "Sized" /\ total_bytes # NoInt /\ chunk_size_arg = NoInt) =>
        FullChunks(total_bytes[1], chunk_size[1]) <= MAXIMUM_CHUNKS_NUMBER

\* the display_progress call shown, in bar mode
BarShown ==
    pc = "Shown" /\ total_bytes # NoInt /\ total_bytes[1] # 0

\* C14 (as claimed): in bar mode the bar has bar_width glyphs:
\* round(ratio * bar_width) complete ones, then incomplete ones, the ratio
\* being received / total clamped to 1. Stated here for positive totals
\* only, where the ratio is a share of the total.
C14_BarIsRoundedShare ==
    BarShown /\ total_bytes[1] > 0 =>
        LET shown == progress[Len(progress)]
            complete == RoundDiv(shown.num * BAR_WIDTH, shown.den)
        IN  /\ Len(shown.bar) = BAR_WIDTH
            /\ shown.bar = Repeat(ITEM_COMPLETE, complete)
                           \o Repeat(ITEM_REMAINING, BAR_WIDTH - complete)

\* C14 (amended): in bar mode with a positive total, every bar that
\* display_progress renders has bar_width glyphs: k complete ones, then
\* incomplete ones, where k is ratio * bar_width truncated to an integer
\* (k <= ratio * bar_width < k + 1) and the ratio is received / total
\* clamped to 1.
C14_BarIsTruncatedShare ==
    BarShown /\ total_bytes[1] > 0 =>
        LET shown == progress[Len(progress)]
            t == total_bytes[1]
            r == IF received_bytes > t THEN t ELSE received_bytes
        IN  /\ shown.mode = "bar"
            /\ Len(shown.bar) = BAR_WIDTH
            /\ \E k \in 0..BAR_WIDTH :
                   /\ k * t <= BAR_WIDTH * r
                   /\ BAR_WIDTH * r < (k + 1) * t
                   /\ shown.bar = Repeat(ITEM_COMPLETE, k)
                                  \o Repeat(ITEM_REMAINING, BAR_WIDTH - k)

C14_Witness ==
    /\ pc = "Shown"
    /\ received_bytes = 1
    /\ total_bytes = <<8>>
    /\ progress[1].bar = Repeat(ITEM_COMPLETE, 2) \o Repeat(ITEM_REMAINING, 18)

\* a read of the response has raised
ReadRaised == \E i \in 1..Len(reads) : reads[i].raised

\* C15: when a read raises after k chunks have been processed, it is the
\* last read made (no retry), the call has failed and returns no result, and
\* the destination holds the k chunks read before it, in order, each
\* non-empty: nothing is taken back.
C15_FailedReadKeepsWrittenChunks ==
    ReadRaised =>
        /\ reads[Len(reads)].raised
        /\ \A i \in 1..(Len(reads) - 1) :
               ~reads[i].raised /\ reads[i].data # <<>>
        /\ pc = "Failed"
        /\ result = <<>>
        /\ chunks_received = Len(reads) - 1
        /\ output_file # "none" => written = Front(ReadData)

C15_Witness ==
    /\ pc = "Failed"
    /\ Len(reads) = 3
    /\ reads[3].raised
    /\ output_file = "file"
    /\ written = <<reads[1].data, reads[2].data>>
    /\ file_opens = 1

\* C16 (as claimed): whatever the output path and the URL, the URL's path
\* being empty included, the path returned ends in a non-empty file name
\* and is never a bare directory path.
C16_ResolvedPathEndsInFileName ==
    pc = "Resolved" =>
        /\ output_file_path # <<>>
        /\ output_file_path[Len(output_file_path)] # SLASH
        /\ split(output_file_path)[2] # <<>>

====
